---- MODULE Spec2Model ----
(***************************************************************************)
(* Contract store and handlers of contractor-tool-be.                      *)
(*                                                                         *)
(*   contracts  the rows of table "contracts", in insertion order          *)
(*   now        the time of the database clock; it moves at every commit   *)
(*   users      the rows of table "users", in insertion order              *)
(*   calls      for each connection the request or query call in flight,   *)
(*              with the place it has reached between two awaits           *)
(*                                                                         *)
(* Optional values (Python's `x | None`) are sequences of length <= 1:     *)
(* None is <<>>, a present value v is <<v>>.  Strings are strings; a       *)
(* calendar date is the day of January 2026, a time of day is the hour.    *)
(* Class Contract declares no column user_id: a row has none, the          *)
(* constructor rejects the keyword and reading the attribute fails.  The   *)
(* rows of the table are therefore there before the first request.         *)
(***************************************************************************)
EXTENDS Integers, Sequences, FiniteSets, TLC

VARIABLES contracts, now, users, calls

vars == <<contracts, now, users, calls>>
(***************************************************************************)
(* Bounds of the model.                                                    *)
(***************************************************************************)
MaxClock == 2      \* committed writes in one behaviour of Spec
MaxListed == 2     \* rows of a store listed under SpecList
MaxPage == 2       \* page numbers tried by list_contracts
MaxLimit == 2      \* page sizes tried by list_contracts

(***************************************************************************)
(* Optional values and Python truthiness.                                  *)
(***************************************************************************)
None == <<>>
Some(v) == <<v>>
Val(o) == o[1]

\* `if s:` for s: str | None
Truthy(o) == o # None /\ Val(o) # ""

(***************************************************************************)
(* Dates, times and their ISO strings.                                     *)
(***************************************************************************)
Days == {5, 10, 11}
Hours == {0, 9, 14}

IsoDate(d) ==
    CASE d = 5 -> "2026-01-05"
      [] d = 10 -> "2026-01-10"
      [] d = 11 -> "2026-01-11"

IsoTime(t) ==
    CASE t = 0 -> "00:00:00"
      [] t = 9 -> "09:00:00"
      [] t = 14 -> "14:00:00"

IsoDateTime(d, t) == IsoDate(d) \o "T" \o IsoTime(t)

ValueError == [ok |-> FALSE, d |-> 0, t |-> 0]

\* datetime.date.fromisoformat: a pure date string only
date_fromisoformat(s) ==
    IF \E d \in Days : IsoDate(d) = s
    THEN [ok |-> TRUE, d |-> CHOOSE d \in Days : IsoDate(d) = s, t |-> 0]
    ELSE ValueError

\* datetime.time.fromisoformat: a pure time string only
time_fromisoformat(s) ==
    IF \E t \in Hours : IsoTime(t) = s
    THEN [ok |-> TRUE, d |-> 0, t |-> CHOOSE t \in Hours : IsoTime(t) = s]
    ELSE ValueError

\* datetime.datetime.fromisoformat: a date string (midnight) or date "T" time
datetime_fromisoformat(s) ==
    IF \E d \in Days : IsoDate(d) = s
    THEN [ok |-> TRUE, d |-> CHOOSE d \in Days : IsoDate(d) = s, t |-> 0]
    ELSE IF \E d \in Days, t \in Hours : IsoDateTime(d, t) = s
    THEN LET p == CHOOSE p \in Days \X Hours : IsoDateTime(p[1], p[2]) = s
         IN  [ok |-> TRUE, d |-> p[1], t |-> p[2]]
    ELSE ValueError

\* try date.fromisoformat(s) except ValueError: datetime.fromisoformat(s).date()
\* (ok = FALSE: the second ValueError leaves the block)
parse_date(s) ==
    IF date_fromisoformat(s).ok THEN date_fromisoformat(s)
    ELSE datetime_fromisoformat(s)

\* try time.fromisoformat(s) except ValueError: datetime.fromisoformat(s).time()
parse_time(s) ==
    IF time_fromisoformat(s).ok THEN time_fromisoformat(s)
    ELSE datetime_fromisoformat(s)

(***************************************************************************)
(* The contracts table.                                                    *)
(***************************************************************************)
FieldNames ==
    {"zip", "city", "fuel_type", "hancock_project_id", "date",
     "start_at_time", "end_at_time", "google_meet_url", "inspection_doc",
     "invoice_doc", "form_stage"}

\* the columns declared nullable=True
NullableFields == FieldNames \ {"form_stage"}

\* the values uuid4 gives the rows, in the order they are inserted
Uuids == <<"c1", "c2", "c3", "c4", "c5", "c6">>

FormStages == {"project_id", "schedule", "documents", "closed"}

\* default=lambda: str(uuid4()): a value no row of the store has
uuid4_of(store) == Uuids[Len(store) + 1]

\* faulty variant of get_contract_by_id: the WHERE clause is lost, a row is returned
\* whenever the table has one
get_contract_by_id_any_row(store, contract_id) ==
    IF store = <<>> THEN None ELSE Some(store[1])

\* select(Contract).where(Contract.id == contract_id), scalar_one_or_none
get_contract_by_id(store, contract_id) ==
    LET hits == {i \in DOMAIN store : store[i].id = contract_id}
    IN  IF hits = {} THEN None ELSE Some(store[CHOOSE i \in hits : TRUE])

\* the keyword arguments of create_contract and update_contract left at None
NoArgs == [f \in FieldNames |-> None]

\* the attributes class Contract declares: its columns and those of Base
ContractColumns == FieldNames \cup {"id", "created_at", "updated_at"}

\* Contract(**kwargs): the constructor of a mapped class raises TypeError
\* for a keyword that names no attribute of the class
Contract_raises(kwargs) == \E k \in kwargs : k \notin ContractColumns

\* a row of table contracts: the columns of Contract, holding the id, the
\* arguments a as create_contract parses them (form_stage or "project_id")
\* and the time t of the insert in created_at and updated_at
Row(id, a, t) ==
    [id |-> id,
     zip |-> a.zip,
     city |-> a.city,
     fuel_type |-> a.fuel_type,
     hancock_project_id |-> a.hancock_project_id,
     date |-> IF Truthy(a.date)
              THEN Some(parse_date(Val(a.date)).d) ELSE None,
     start_at_time |->
         IF Truthy(a.start_at_time)
         THEN Some(parse_time(Val(a.start_at_time)).t) ELSE None,
     end_at_time |->
         IF Truthy(a.end_at_time)
         THEN Some(parse_time(Val(a.end_at_time)).t) ELSE None,
     google_meet_url |-> a.google_meet_url,
     inspection_doc |-> a.inspection_doc,
     invoice_doc |-> a.invoice_doc,
     form_stage |->
         IF Truthy(a.form_stage) THEN Val(a.form_stage) ELSE "project_id",
     created_at |-> t,
     updated_at |-> t]

\* create_contract(db, user_id, **a) at time t: raised names the exception
\* that leaves the function: the ValueError of a date or time that does not
\* parse, else the TypeError of Contract(user_id=user_id, ...); nothing is
\* added then
create_contract(store, t, user_id, a) ==
    LET value_error ==
            \/ Truthy(a.date) /\ ~parse_date(Val(a.date)).ok
            \/ Truthy(a.start_at_time) /\ ~parse_time(Val(a.start_at_time)).ok
            \/ Truthy(a.end_at_time) /\ ~parse_time(Val(a.end_at_time)).ok
        kwargs == {"user_id"} \cup FieldNames
        contract == Row(uuid4_of(store), a, t)
    IN  IF value_error
        THEN [raised |-> "ValueError", wrote |-> FALSE, contracts |-> store,
              ret |-> None]
        ELSE IF Contract_raises(kwargs)
        THEN [raised |-> "TypeError", wrote |-> FALSE, contracts |-> store,
              ret |-> None]
        ELSE [raised |-> "", wrote |-> TRUE,
              contracts |-> Append(store, contract), ret |-> Some(contract)]

\* update_data of update_contract: the entry of a field is None when the
\* field is not in the dictionary
update_data(a) ==
    [zip |-> a.zip,
     city |-> a.city,
     fuel_type |-> a.fuel_type,
     hancock_project_id |-> a.hancock_project_id,
     date |-> IF a.date # None /\ parse_date(Val(a.date)).ok
              THEN Some(parse_date(Val(a.date)).d) ELSE None,
     start_at_time |->
         IF a.start_at_time # None /\ parse_time(Val(a.start_at_time)).ok
         THEN Some(parse_time(Val(a.start_at_time)).t) ELSE None,
     end_at_time |->
         IF a.end_at_time # None /\ parse_time(Val(a.end_at_time)).ok
         THEN Some(parse_time(Val(a.end_at_time)).t) ELSE None,
     google_meet_url |-> a.google_meet_url,
     inspection_doc |-> a.inspection_doc,
     invoice_doc |-> a.invoice_doc,
     form_stage |-> a.form_stage]

\* faulty variant of update_raises: a field that does not parse is skipped
update_raises_never(a) == FALSE

\* a ValueError leaves update_contract while update_data is built
update_raises(a) ==
    \/ a.date # None /\ ~parse_date(Val(a.date)).ok
    \/ a.start_at_time # None /\ ~parse_time(Val(a.start_at_time)).ok
    \/ a.end_at_time # None /\ ~parse_time(Val(a.end_at_time)).ok

\* faulty variant of apply_values: every column is written, a field that was not
\* supplied as NULL
apply_values_all_columns(c, upd, t) ==
    [c EXCEPT
        !.zip = upd.zip,
        !.city = upd.city,
        !.fuel_type = upd.fuel_type,
        !.hancock_project_id = upd.hancock_project_id,
        !.date = upd.date,
        !.start_at_time = upd.start_at_time,
        !.end_at_time = upd.end_at_time,
        !.google_meet_url = upd.google_meet_url,
        !.inspection_doc = upd.inspection_doc,
        !.invoice_doc = upd.invoice_doc,
        !.form_stage = IF upd.form_stage # None THEN Val(upd.form_stage) ELSE @,
        !.updated_at = t]

\* faulty variant of apply_values: updated_at is declared without onupdate
apply_values_without_onupdate(c, upd, t) ==
    [apply_values_all_columns(
        c, [f \in FieldNames |->
               IF upd[f] # None THEN upd[f]
               ELSE IF f = "form_stage" THEN Some(c[f]) ELSE c[f]], t)
     EXCEPT !.updated_at = c.updated_at]

\* update(Contract).where(Contract.id == contract_id).values(**upd) at time t;
\* updated_at has onupdate=func.now()
apply_values(c, upd, t) ==
    [c EXCEPT
        !.zip = IF upd.zip # None THEN upd.zip ELSE @,
        !.city = IF upd.city # None THEN upd.city ELSE @,
        !.fuel_type = IF upd.fuel_type # None THEN upd.fuel_type ELSE @,
        !.hancock_project_id =
            IF upd.hancock_project_id # None
            THEN upd.hancock_project_id ELSE @,
        !.date = IF upd.date # None THEN upd.date ELSE @,
        !.start_at_time =
            IF upd.start_at_time # None THEN upd.start_at_time ELSE @,
        !.end_at_time =
            IF upd.end_at_time # None THEN upd.end_at_time ELSE @,
        !.google_meet_url =
            IF upd.google_meet_url # None THEN upd.google_meet_url ELSE @,
        !.inspection_doc =
            IF upd.inspection_doc # None THEN upd.inspection_doc ELSE @,
        !.invoice_doc =
            IF upd.invoice_doc # None THEN upd.invoice_doc ELSE @,
        !.form_stage =
            IF upd.form_stage # None THEN Val(upd.form_stage) ELSE @,
        !.updated_at = t]

\* faulty variant of execute_update: the row is replaced by a row built from
\* the update alone, as Session.merge of a new Contract would
execute_update_by_merge(store, contract_id, upd, t) ==
    [i \in DOMAIN store |->
        IF store[i].id = contract_id
        THEN apply_values_all_columns(store[i], upd, t)
        ELSE store[i]]

\* db.execute(update(Contract).where(Contract.id == contract_id).values(..))
execute_update(store, contract_id, upd, t) ==
    [i \in DOMAIN store |->
        IF store[i].id = contract_id THEN apply_values(store[i], upd, t)
        ELSE store[i]]

\* faulty variant of update_contract_lookup: an empty update_data does not
\* return the contract, the UPDATE is executed
update_contract_lookup_without_empty_check(store, contract_id, a) ==
    LET contract == get_contract_by_id(store, contract_id)
    IN  IF contract = None
        THEN [returned |-> TRUE, raised |-> "", read |-> None, ret |-> None]
        ELSE IF update_raises(a)
        THEN [returned |-> TRUE, raised |-> "ValueError", read |-> contract,
              ret |-> None]
        ELSE [returned |-> FALSE, raised |-> "", read |-> contract,
              ret |-> None]

\* update_contract(db, contract_id, **a) from its first await to its UPDATE:
\* contract = await get_contract_by_id(db, contract_id) on the rows committed
\* then, return None when there is none; update_data is built (a ValueError
\* leaves the function); return contract when update_data is empty.
\* returned tells that the function is left here, raised names the
\* exception that leaves it, ret is the value returned, read the contract
\* the lookup gave.
update_contract_lookup(store, contract_id, a) ==
    LET contract == get_contract_by_id(store, contract_id)
    IN  IF contract = None
        THEN [returned |-> TRUE, raised |-> "", read |-> None, ret |-> None]
        ELSE IF update_raises(a)
        THEN [returned |-> TRUE, raised |-> "ValueError", read |-> contract,
              ret |-> None]
        ELSE IF \A f \in FieldNames : update_data(a)[f] = None
        THEN [returned |-> TRUE, raised |-> "", read |-> contract,
              ret |-> contract]
        ELSE [returned |-> FALSE, raised |-> "", read |-> contract,
              ret |-> None]

(***************************************************************************)
(* list_contracts.                                                         *)
(***************************************************************************)
\* faulty variant of offset_of: the page number is taken as 0-indexed
offset_of_page_times_limit(page, limit) == page * limit

\* offset = (page - 1) * limit
offset_of(page, limit) == (page - 1) * limit

\* faulty variant of filter_date: date_from is applied whatever no_dates is
filter_date_whatever_no_dates(date_from, no_dates) ==
    IF Truthy(date_from)
    THEN IF parse_date(Val(date_from)).ok
         THEN Some(parse_date(Val(date_from)).d) ELSE None
    ELSE None

\* faulty variant of filter_date: a date_from that does not parse matches no date
filter_date_unparsed_matches_none(date_from, no_dates) ==
    IF no_dates # Some(TRUE) /\ Truthy(date_from)
    THEN IF parse_date(Val(date_from)).ok
         THEN Some(parse_date(Val(date_from)).d) ELSE Some(32)
    ELSE None

\* filter_date: None when the date_from filter is not applied
filter_date(date_from, no_dates) ==
    IF no_dates # Some(TRUE) /\ Truthy(date_from)
    THEN IF parse_date(Val(date_from)).ok
         THEN Some(parse_date(Val(date_from)).d) ELSE None
    ELSE None

\* faulty variant of query_where: the date_from bound is exclusive
query_where_exclusive(c, date_from, no_dates) ==
    /\ no_dates = Some(TRUE) => c.date = None
    /\ no_dates = Some(FALSE) => c.date # None
    /\ filter_date(date_from, no_dates) # None =>
          /\ c.date # None
          /\ Val(c.date) > Val(filter_date(date_from, no_dates))

\* the WHERE clauses put on query; a comparison with a NULL date selects
\* nothing
query_where(c, date_from, no_dates) ==
    /\ no_dates = Some(TRUE) => c.date = None
    /\ no_dates = Some(FALSE) => c.date # None
    /\ filter_date(date_from, no_dates) # None =>
          /\ c.date # None
          /\ Val(c.date) >= Val(filter_date(date_from, no_dates))

\* faulty variant of count_query_where: the date_from clause is left off the count
count_query_where_without_date_from(c, date_from, no_dates) ==
    /\ no_dates = Some(TRUE) => c.date = None
    /\ no_dates = Some(FALSE) => c.date # None

\* the WHERE clauses put on count_query
count_query_where(c, date_from, no_dates) ==
    /\ no_dates = Some(TRUE) => c.date = None
    /\ no_dates = Some(FALSE) => c.date # None
    /\ filter_date(date_from, no_dates) # None =>
          /\ c.date # None
          /\ Val(c.date) >= Val(filter_date(date_from, no_dates))

\* Contract.date.asc().nulls_first()
date_before(a, b) ==
    \/ a.date = None /\ b.date # None
    \/ a.date # None /\ b.date # None /\ Val(a.date) < Val(b.date)

\* faulty variant of start_before: absent start times sort first
start_before_nulls_first(a, b) ==
    \/ a.start_at_time = None /\ b.start_at_time # None
    \/ /\ a.start_at_time # None
       /\ b.start_at_time # None
       /\ Val(a.start_at_time) < Val(b.start_at_time)

\* Contract.start_at_time.asc().nulls_last()
start_before(a, b) ==
    \/ a.start_at_time # None /\ b.start_at_time = None
    \/ /\ a.start_at_time # None
       /\ b.start_at_time # None
       /\ Val(a.start_at_time) < Val(b.start_at_time)

\* a must come before b under ORDER BY date, start_at_time
sorts_before(a, b) ==
    \/ date_before(a, b)
    \/ a.date = b.date /\ start_before(a, b)

\* the orders in which the database may return the rows S: rows that tie on
\* both keys come in any order
RECURSIVE order_by(_)
order_by(S) ==
    IF S = {} THEN {<<>>}
    ELSE UNION {{<<c>> \o rest : rest \in order_by(S \ {c})} :
                  c \in {m \in S : \A o \in S : ~sorts_before(o, m)}}

\* .limit(limit).offset(offset)
limit_offset(rows, limit, offset) ==
    [i \in 1..(IF Len(rows) - offset < limit
               THEN IF Len(rows) > offset THEN Len(rows) - offset ELSE 0
               ELSE limit) |-> rows[offset + i]]

\* faulty variant of total_count_of: the count query is left without its
\* WHERE clauses
total_count_of_whole_table(store, date_from, no_dates) == Len(store)

\* count_result.scalar_one()
total_count_of(store, date_from, no_dates) ==
    Cardinality({i \in DOMAIN store :
                    count_query_where(store[i], date_from, no_dates)})

\* the lists the page query may give: db.execute(query.order_by(...)
\* .limit(limit).offset(offset)), result.scalars().all()
page_query(store, page, limit, date_from, no_dates) ==
    {limit_offset(rows, limit, offset_of(page, limit)) :
        rows \in order_by({store[i] : i \in
                    {j \in DOMAIN store :
                        query_where(store[j], date_from, no_dates)}})}

\* PostgreSQL rejects the page query when its LIMIT or OFFSET is negative
\* ("LIMIT must not be negative", "OFFSET must not be negative"); LIMIT 0
\* is accepted and selects no row
limit_offset_raises(limit, offset) == limit < 0 \/ offset < 0

(***************************************************************************)
(* views/contracts.py: the response model and the handlers.                *)
(***************************************************************************)
StrfDate(d) ==
    CASE d = 5 -> "January 05, 2026"
      [] d = 10 -> "January 10, 2026"
      [] d = 11 -> "January 11, 2026"

StrfTime(t) ==
    CASE t = 0 -> "12:00 AM"
      [] t = 9 -> "9:00 AM"
      [] t = 14 -> "2:00 PM"

\* format_datetime(date_obj, time_obj)
format_datetime(date_obj, time_obj) ==
    IF date_obj = None THEN None
    ELSE IF time_obj # None
    THEN Some(StrfDate(Val(date_obj)) \o " at " \o StrfTime(Val(time_obj)))
    ELSE Some(StrfDate(Val(date_obj)))

\* what reading an attribute the object does not have raises
AttributeError == [raised |-> "AttributeError"]

\* the value x stands for an exception raised
Raised(x) == "raised" \in DOMAIN x

\* ContractResponse(id=contract.id, user_id=contract.user_id, ...)
ContractResponse(c) ==
    IF "user_id" \notin DOMAIN c THEN AttributeError
    ELSE
    [id |-> c.id,
     user_id |-> c.user_id,
     zip |-> c.zip,
     city |-> c.city,
     fuel_type |-> c.fuel_type,
     hancock_project_id |-> c.hancock_project_id,
     date |-> IF c.date # None THEN Some(IsoDate(Val(c.date))) ELSE None,
     start_at_time |->
         IF c.start_at_time # None
         THEN Some(IsoTime(Val(c.start_at_time))) ELSE None,
     end_at_time |->
         IF c.end_at_time # None
         THEN Some(IsoTime(Val(c.end_at_time))) ELSE None,
     formatted_datetime |-> format_datetime(c.date, c.start_at_time),
     google_meet_url |-> c.google_meet_url,
     meeting_url |-> c.google_meet_url,
     inspection_doc |-> c.inspection_doc,
     invoice_doc |-> c.invoice_doc,
     form_stage |-> c.form_stage,
     created_at |-> c.created_at,
     updated_at |-> c.updated_at]

\* the keyword arguments submit_contract passes on from a ContractRequest
ArgsOf(req) == [f \in FieldNames |-> req[f]]

\* submit_contract(contract_data) once update_contract or create_contract
\* has returned ret or raised: the HTTP status and the response body.  An
\* exception that is no HTTPException leaves the handler: HTTP 500.
submit_contract_response(req, r) ==
    LET respond ==
            IF Raised(ContractResponse(Val(r.ret)))
            THEN [status |-> 500, body |-> None]
            ELSE [status |-> 200, body |-> Some(ContractResponse(Val(r.ret)))]
    IN  IF r.raised # "" THEN [status |-> 500, body |-> None]
        ELSE IF ~Truthy(req.contract_id) THEN respond
        ELSE IF r.ret = None THEN [status |-> 404, body |-> None]
        ELSE IF "user_id" \notin DOMAIN Val(r.ret)
        THEN [status |-> 500, body |-> None]
        ELSE IF Val(r.ret).user_id # req.user_id
        THEN [status |-> 403, body |-> None]
        ELSE respond

\* get_contract(contract_id): one SELECT, then the response
get_contract(store, contract_id) ==
    LET contract == get_contract_by_id(store, contract_id)
    IN  IF contract = None THEN [status |-> 404, body |-> None]
        ELSE IF Raised(ContractResponse(Val(contract)))
        THEN [status |-> 500, body |-> None]
        ELSE [status |-> 200, body |-> Some(ContractResponse(Val(contract)))]

\* the ContractResponse upload_inspection_doc and upload_invoice_doc build
\* from the contract update_contract returns
UploadResponse(c) == ContractResponse(c)

\* S3Service.ALLOWED_MIME_TYPES (the document types among them)
ALLOWED_MIME_TYPES == {"application/pdf", "text/plain", "image/png"}

\* faulty variant of validate_mime_type: every type is let through
validate_mime_type_any(mime_type) == TRUE

\* S3Service.validate_mime_type(mime_type)
validate_mime_type(mime_type) == mime_type \in ALLOWED_MIME_TYPES

\* S3Service.upload_file(file_content, file_name, folder, content_type,
\* validate_mime=True); put_ok tells whether put_object succeeds.  The URL
\* stands for the presigned URL of the key folder/<uuid4><suffix>.
upload_file(file, folder, put_ok) ==
    IF ~validate_mime_type(file.content_type)
    THEN [raised |-> "ValueError", url |-> ""]
    ELSE IF ~put_ok
    THEN [raised |-> "Exception", url |-> ""]
    ELSE [raised |-> "", url |-> "https://bucket.s3/" \o folder \o "/file"]

\* the operations that upload a document, and the kind of document of each
UploadOps == {"upload_inspection_doc", "upload_invoice_doc"}

Kind(op) == IF op = "upload_inspection_doc" THEN "inspection" ELSE "invoice"

\* upload_inspection_doc and upload_invoice_doc from file.read() to the call
\* of update_contract: the empty file is answered 400; inside the try,
\* upload_file's ValueError is answered 400 and its other exceptions 500;
\* status 0 tells that the handler goes on, with the URL to store
upload_doc_stored(op, contract_id, file, put_ok) ==
    LET up == upload_file(file,
                          "contracts/" \o contract_id \o "/" \o Kind(op),
                          put_ok)
    IN  IF file.empty THEN [status |-> 400, url |-> ""]
        ELSE IF up.raised = "ValueError" THEN [status |-> 400, url |-> ""]
        ELSE IF up.raised = "Exception" THEN [status |-> 500, url |-> ""]
        ELSE [status |-> 0, url |-> up.url]

\* upload_inspection_doc and upload_invoice_doc once update_contract has
\* returned ret or raised, still inside the try: a ValueError is answered
\* 400; the HTTPException raised for no contract and the exception raised
\* while the response is built are caught by `except Exception`: 500
upload_doc_response(r) ==
    IF r.raised = "ValueError" THEN [status |-> 400, body |-> None]
    ELSE IF r.raised # "" THEN [status |-> 500, body |-> None]
    ELSE IF r.ret = None THEN [status |-> 500, body |-> None]
    ELSE IF Raised(UploadResponse(Val(r.ret)))
    THEN [status |-> 500, body |-> None]
    ELSE [status |-> 200, body |-> Some(UploadResponse(Val(r.ret)))]

\* the defaults of list_contracts(db, page=1, limit=20)
DefaultPage == 1
DefaultLimit == 20

\* for contract in contracts: ...(id=contract.id, ...) over what
\* list_contracts_query returned, the tuple (contracts, total_count).  The
\* elements of the tuple are a list and an int; reading the attribute id of
\* anything but a Contract raises AttributeError, which leaves the handler
\* (HTTP 500).
items_of_returned(returned) ==
    LET tuple == <<[type |-> "list", value |-> returned.items],
                   [type |-> "int", value |-> returned.total_count]>>
    IN  IF \A k \in DOMAIN tuple : tuple[k].type = "Contract"
        THEN [status |-> 200,
              body |-> Some([k \in DOMAIN tuple |->
                                ContractResponse(tuple[k].value)])]
        ELSE [status |-> 500, body |-> None]

\* GET /contracts/list and GET /contracts/ (views list_contracts and
\* get_all_contracts): the handlers declare no query parameter, so those of
\* the request are dropped and list_contracts_query(db) runs with its
\* defaults
list_endpoint_args(query) ==
    [page |-> DefaultPage, limit |-> DefaultLimit, date_from |-> None,
     no_dates |-> None]

(***************************************************************************)
(* Requests and calls in flight.  A handler runs from one await to the     *)
(* next as one step; between two steps of a request the steps of the other *)
(* connection run.  Every request has its own session: its transaction     *)
(* begins with its first statement, func.now() is the time the transaction *)
(* began (PostgreSQL), each statement reads the rows committed when it     *)
(* runs (READ COMMITTED), and an UPDATE locks its row until the commit.    *)
(***************************************************************************)
\* the connections whose calls run side by side
Calls == {"A", "B"}

\* no call of the connection is in flight
NoCall == [pc |-> "idle"]

NoCalls == [p \in Calls |-> NoCall]

\* the call has returned; a request has its status and body
Done(c) == c.pc = "done"

\* a call of operation op with request req, begun at time t, that calls (or
\* is) update_contract(db, contract_id, **a); read, raised and ret are the
\* contract update_contract looked up, the exception that left it and the
\* value it returned
Call(op, req, contract_id, a, t) ==
    [pc |-> "begun", op |-> op, req |-> req, contract_id |-> contract_id,
     a |-> a, began |-> t, read |-> None, raised |-> "", ret |-> None,
     status |-> 0, body |-> None]

\* the call c once update_contract (create_contract) has returned r.ret or
\* raised r.raised: the handler answers without another await
after_update_contract(c, r) ==
    LET answer ==
            IF c.op = "submit_contract"
            THEN submit_contract_response(c.req, r)
            ELSE IF c.op \in UploadOps THEN upload_doc_response(r)
            ELSE [status |-> 0, body |-> None]
    IN  [c EXCEPT !.pc = "done", !.raised = r.raised, !.ret = r.ret,
                  !.status = answer.status, !.body = answer.body]

\* the call c after the first await of its update_contract, on the rows of
\* store: returned, or about to execute the UPDATE
looked_up(c, store) ==
    LET r == update_contract_lookup(store, c.contract_id, c.a)
    IN  IF r.returned
        THEN after_update_contract([c EXCEPT !.read = r.read], r)
        ELSE [c EXCEPT !.pc = "read", !.read = r.read]

\* faulty variant of update_statement: the row is written back as the call
\* read it, with the values of the call applied
update_statement_from_read(store, c) ==
    [i \in DOMAIN store |->
        IF store[i].id = c.contract_id
        THEN apply_values(Val(c.read), update_data(c.a), c.began)
        ELSE store[i]]

\* the UPDATE of the call c as its commit leaves the rows: the values of
\* update_data on the row as committed, updated_at the now() of the
\* transaction of c
update_statement(store, c) ==
    execute_update(store, c.contract_id, update_data(c.a), c.began)

\* the results the page query gives a list_contracts call that counted
\* total_count: PostgreSQL rejects the query when its LIMIT or OFFSET is
\* negative; raised names the exception that leaves the function
page_results(total_count, store, page, limit, date_from, no_dates) ==
    IF limit_offset_raises(limit, offset_of(page, limit))
    THEN {[raised |-> "DBAPIError", items |-> <<>>, total_count |-> 0]}
    ELSE {[raised |-> "", items |-> items, total_count |-> total_count] :
            items \in page_query(store, page, limit, date_from, no_dates)}

\* the results of list_contracts(db, page, limit, date_from, no_dates) when
\* the table is store at both of its queries
list_contracts(store, page, limit, date_from, no_dates) ==
    page_results(total_count_of(store, date_from, no_dates), store, page,
                 limit, date_from, no_dates)

\* a call of list_contracts with the arguments args, for the request req of
\* operation op, after count_result = await db.execute(count_query) on the
\* rows of store at time t
ListCall(op, req, args, store, t) ==
    [pc |-> "counted", op |-> op, req |-> req, args |-> args,
     total_count |-> total_count_of(store, args.date_from, args.no_dates),
     counted_at |-> t, counted_in |-> store, paged_at |-> 0,
     paged_in |-> <<>>, status |-> 0, body |-> None]

(***************************************************************************)
(* The requests tried.                                                     *)
(***************************************************************************)
With(a, f, v) == [a EXCEPT ![f] = Some(v)]

\* every field supplied, each with a well-formed value
AllFields ==
    [zip |-> Some("10001"),
     city |-> Some("Albany"),
     fuel_type |-> Some("gas"),
     hancock_project_id |-> Some("HP-7"),
     date |-> Some("2026-01-10T09:00:00"),
     start_at_time |-> Some("09:00:00"),
     end_at_time |-> Some("14:00:00"),
     google_meet_url |-> Some("meet.example/x"),
     inspection_doc |-> Some("s3/inspection.pdf"),
     invoice_doc |-> Some("s3/invoice.pdf"),
     form_stage |-> Some("closed")]

\* the field arguments of the requests tried: none, all, one field alone
\* (well-formed, empty, malformed, a form_stage outside the four stages),
\* and a well-formed field beside a malformed one
FieldArgs ==
    {NoArgs,
     AllFields,
     With(NoArgs, "form_stage", "schedule"),
     With(NoArgs, "form_stage", "archived"),
     With(NoArgs, "date", "2026-01-05"),
     With(NoArgs, "date", ""),
     With(NoArgs, "start_at_time", "14:00:00"),
     With(NoArgs, "start_at_time", "not-a-time"),
     With(With(NoArgs, "zip", "10002"), "date", "not-a-date"),
     With(With(NoArgs, "city", "Troy"), "end_at_time", "not-a-time")}

\* the contract ids of the requests: those of the rows of Tables; the
\* second is the id of no row of the tables of one row
ContractIds == {Uuids[1], Uuids[2]}

\* a ContractRequest body
ContractRequest(u, cid, a) ==
    [f \in FieldNames \cup {"user_id", "contract_id"} |->
        IF f = "user_id" THEN u
        ELSE IF f = "contract_id" THEN cid
        ELSE a[f]]

\* the field arguments of the submissions without a contract_id: none,
\* all, a date, an empty date, and a well-formed field beside a malformed
\* one
CreateArgs ==
    {NoArgs,
     AllFields,
     With(NoArgs, "date", "2026-01-05"),
     With(NoArgs, "date", ""),
     With(With(NoArgs, "zip", "10002"), "date", "not-a-date")}

\* the ContractRequest bodies the first connection sends: the creates; every
\* field argument for the first contract; for the second contract a change
\* of stage and no field; and the empty contract_id
ContractRequests ==
    {ContractRequest("u1", None, a) : a \in CreateArgs}
    \cup {ContractRequest("u1", Some(Uuids[1]), a) : a \in FieldArgs}
    \cup {ContractRequest("u1", Some(Uuids[2]), a) :
             a \in {NoArgs, With(NoArgs, "form_stage", "schedule")}}
    \cup {ContractRequest("u1", Some(""), NoArgs)}

\* the ContractRequest body the second connection sends: a change of stage
\* for the first contract
SideRequests ==
    {ContractRequest("u1", Some(Uuids[1]),
                     With(NoArgs, "form_stage", "schedule"))}

RequestsOf(p) == IF p = "A" THEN ContractRequests ELSE SideRequests

\* the connection that sends the reads and the uploads
Readers == {"A"}

\* a file to upload, and whether blob storage takes it
Upload(filename, empty, content_type, put_ok) ==
    [file |-> [filename |-> filename, empty |-> empty,
               content_type |-> content_type],
     put_ok |-> put_ok]

\* the uploads tried for each contract: to the first a PDF that blob
\* storage takes, one it fails to take, a file without a name, an empty
\* file and a file of a type that is not allowed; to the second (no row of
\* the table of one row) a PDF that blob storage takes
Uploads(contract_id) ==
    IF contract_id = Uuids[1]
    THEN {Upload("report.pdf", FALSE, "application/pdf", TRUE),
          Upload("report.pdf", FALSE, "application/pdf", FALSE),
          Upload("", FALSE, "application/pdf", TRUE),
          Upload("report.pdf", TRUE, "application/pdf", TRUE),
          Upload("tool.exe", FALSE, "application/x-msdownload", TRUE)}
    ELSE {Upload("report.pdf", FALSE, "application/pdf", TRUE)}

\* the query parameters of the list requests tried
ListQueries ==
    {[page |-> 1, limit |-> 1, date_from |-> None, no_dates |-> None],
     [page |-> 2, limit |-> 1, date_from |-> None, no_dates |-> Some(TRUE)]}

(***************************************************************************)
(* Spec: the store under the handlers of two connections.                  *)
(***************************************************************************)
\* the tables the requests find: one contract with no field set, or a
\* contract with every field and one with none; the rows were inserted at
\* time 0
Tables ==
    {<<Row(Uuids[1], NoArgs, 0)>>,
     <<Row(Uuids[1], AllFields, 0), Row(Uuids[2], NoArgs, 0)>>}

Init ==
    /\ contracts \in Tables
    /\ now = 1
    /\ users = <<>>
    /\ calls = NoCalls

\* POST /contracts/ up to its first await: with a contract_id,
\* update_contract and its lookup; without, create_contract, which raises
\* before it awaits (had it built the Contract, db.add, commit and refresh
\* would follow)
SubmitContract ==
    \E p \in Calls : \E req \in RequestsOf(p) :
        LET c == Call("submit_contract", req,
                      IF Truthy(req.contract_id)
                      THEN Val(req.contract_id) ELSE "",
                      ArgsOf(req), now)
            r == create_contract(contracts, now, req.user_id, ArgsOf(req))
        IN  /\ calls[p] = NoCall
            /\ IF Truthy(req.contract_id)
               THEN /\ calls' = [calls EXCEPT ![p] = looked_up(c, contracts)]
                    /\ UNCHANGED <<contracts, now>>
               ELSE /\ r.wrote => now <= MaxClock
                    /\ contracts' = r.contracts
                    /\ now' = IF r.wrote THEN now + 1 ELSE now
                    /\ calls' = [calls EXCEPT ![p] =
                                    after_update_contract(c, r)]
            /\ UNCHANGED users

\* GET /contracts/{contract_id}: one SELECT, then the response
GetContract ==
    \E p \in Readers, cid \in ContractIds :
        LET r == get_contract(contracts, cid)
            c == Call("get_contract", Some(cid), cid, NoArgs, now)
        IN  /\ calls[p] = NoCall
            /\ calls' = [calls EXCEPT ![p] =
                   [c EXCEPT !.pc = "done",
                             !.ret = get_contract_by_id(contracts, cid),
                             !.status = r.status, !.body = r.body]]
            /\ UNCHANGED <<contracts, now, users>>

\* an upload up to file.read(): contract = await get_contract_by_id(db,
\* contract_id), 404 when there is none, 400 when the file has no name
upload_doc_begins(op) ==
    \E p \in Readers, cid \in ContractIds : \E up \in Uploads(cid) :
        LET c == Call(op, [contract_id |-> cid, file |-> up.file,
                           put_ok |-> up.put_ok], cid, NoArgs, now)
            contract == get_contract_by_id(contracts, cid)
        IN  /\ calls[p] = NoCall
            /\ calls' = [calls EXCEPT ![p] =
                   IF contract = None
                   THEN [c EXCEPT !.pc = "done", !.status = 404]
                   ELSE IF up.file.filename = ""
                   THEN [c EXCEPT !.pc = "done", !.read = contract,
                                  !.status = 400]
                   ELSE [c EXCEPT !.pc = "found", !.read = contract]]
            /\ UNCHANGED <<contracts, now, users>>

\* POST /contracts/{contract_id}/inspection-doc
UploadInspectionDoc == upload_doc_begins("upload_inspection_doc")

\* POST /contracts/{contract_id}/invoice-doc
UploadInvoiceDoc == upload_doc_begins("upload_invoice_doc")

\* file_bytes = await file.read(); the empty file; s3.upload_file(...)
UploadFile ==
    \E p \in Calls :
        LET c == calls[p]
            s == upload_doc_stored(c.op, c.contract_id, c.req.file,
                                   c.req.put_ok)
        IN  /\ c.pc = "found"
            /\ calls' = [calls EXCEPT ![p] =
                   IF s.status # 0
                   THEN [c EXCEPT !.pc = "done", !.status = s.status]
                   ELSE [c EXCEPT !.pc = "uploaded",
                                  !.a = With(NoArgs, Kind(c.op) \o "_doc",
                                             s.url)]]
            /\ UNCHANGED <<contracts, now, users>>

\* updated_contract = await update_contract(db, contract_id, <kind>_doc=
\* file_url) up to its UPDATE
UpdateContractLookup ==
    \E p \in Calls :
        /\ calls[p].pc = "uploaded"
        /\ calls' = [calls EXCEPT ![p] = looked_up(calls[p], contracts)]
        /\ UNCHANGED <<contracts, now, users>>

\* await db.execute(update(Contract).where(Contract.id == contract_id)
\* .values(**update_data)): the statement waits while the UPDATE of another
\* transaction holds the row; its effect is seen by no other session before
\* the commit.  (The clock of the model stops at MaxClock.)
UpdateContractExecute ==
    \E p \in Calls :
        /\ calls[p].pc = "read"
        /\ \A q \in Calls \ {p} :
              ~(/\ calls[q].pc = "updated"
                /\ calls[q].contract_id = calls[p].contract_id)
        /\ now + Cardinality({q \in Calls : calls[q].pc = "updated"})
               <= MaxClock
        /\ calls' = [calls EXCEPT ![p].pc = "updated"]
        /\ UNCHANGED <<contracts, now, users>>

\* await db.commit()
UpdateContractCommit ==
    \E p \in Calls :
        /\ calls[p].pc = "updated"
        /\ contracts' = update_statement(contracts, calls[p])
        /\ now' = now + 1
        /\ calls' = [calls EXCEPT ![p].pc = "committed"]
        /\ UNCHANGED users

\* return await get_contract_by_id(db, contract_id), and what the handler
\* does with the contract returned
UpdateContractReRead ==
    \E p \in Calls :
        /\ calls[p].pc = "committed"
        /\ calls' = [calls EXCEPT ![p] =
               after_update_contract(
                   calls[p],
                   [raised |-> "",
                    ret |-> get_contract_by_id(contracts,
                                               calls[p].contract_id)])]
        /\ UNCHANGED <<contracts, now, users>>

\* GET /contracts/list and GET /contracts/ up to the second query of
\* list_contracts_query(db)
ListEndpoint ==
    \E p \in Readers, query \in ListQueries :
        /\ calls[p] = NoCall
        /\ calls' = [calls EXCEPT ![p] =
               ListCall("list_endpoint", query, list_endpoint_args(query),
                        contracts, now)]
        /\ UNCHANGED <<contracts, now, users>>

\* result = await db.execute(query.order_by(...).limit(limit)
\* .offset(offset)); return contracts, total_count; and what the caller
\* does with the tuple returned
ListContractsPage ==
    \E p \in Calls :
        LET c == calls[p]
        IN  /\ c.pc = "counted"
            /\ \E r \in page_results(c.total_count, contracts, c.args.page,
                                     c.args.limit, c.args.date_from,
                                     c.args.no_dates) :
                  calls' = [calls EXCEPT ![p] =
                      [c EXCEPT
                          !.pc = "done",
                          !.paged_at = now,
                          !.paged_in = contracts,
                          !.status =
                              IF r.raised # "" THEN 500
                              ELSE IF c.op = "list_endpoint"
                              THEN items_of_returned(r).status
                              ELSE 200,
                          !.body =
                              IF c.op = "list_endpoint"
                              THEN IF r.raised # "" THEN None
                                   ELSE items_of_returned(r).body
                              ELSE r]]
            /\ UNCHANGED <<contracts, now, users>>

\* the response is delivered; the connection sends its next request
Respond ==
    \E p \in Calls :
        /\ Done(calls[p])
        /\ calls' = [calls EXCEPT ![p] = NoCall]
        /\ UNCHANGED <<contracts, now, users>>

Next ==
    \/ SubmitContract
    \/ GetContract
    \/ UploadInspectionDoc
    \/ UploadInvoiceDoc
    \/ UploadFile
    \/ UpdateContractLookup
    \/ UpdateContractExecute
    \/ UpdateContractCommit
    \/ UpdateContractReRead
    \/ ListEndpoint
    \/ ListContractsPage
    \/ Respond

Spec == Init /\ [][Next]_vars

(***************************************************************************)
(* SpecList: a list_contracts call, its count query and its page query as  *)
(* two steps, over the stores of up to MaxListed rows, beside an           *)
(* update_contract call of another session that sets the date of the       *)
(* first contract.                                                         *)
(***************************************************************************)
\* the date and start time of the rows listed: no date; a date without a
\* time, with an earlier and with a later time; a later date
RowShapes ==
    {<<None, None>>, <<Some(5), None>>, <<Some(5), Some(9)>>,
     <<Some(5), Some(14)>>, <<Some(10), None>>}

\* the arguments that give a row the date d and start time t
RowArgs(d, t) ==
    [NoArgs EXCEPT
        !.date = IF d = None THEN None ELSE Some(IsoDate(Val(d))),
        !.start_at_time = IF t = None THEN None ELSE Some(IsoTime(Val(t)))]

\* the table of the rows with the dates and start times of rows, inserted
\* at time 0
RECURSIVE StoreOf(_)
StoreOf(rows) ==
    IF rows = <<>> THEN <<>>
    ELSE LET n == Len(rows)
             before == StoreOf([i \in 1..(n - 1) |-> rows[i]])
         IN  Append(before,
                    Row(Uuids[n], RowArgs(rows[n][1], rows[n][2]), 0))

ListStores ==
    UNION {{StoreOf(rows) : rows \in [1..n -> RowShapes]} :
             n \in 0..MaxListed}

\* the store of the ordering example
ExampleStore ==
    StoreOf(<<<<None, None>>, <<Some(5), None>>, <<Some(5), Some(9)>>,
              <<Some(10), None>>>>)

DateFroms ==
    {None, Some(""), Some("not-a-date"), Some("2026-01-10"),
     Some("2026-01-11"), Some("2026-01-10T09:00:00")}

NoDates == {None, Some(TRUE), Some(FALSE)}

\* the filters of the calls, as <<date_from, no_dates>>: every date_from
\* without no_dates, and no_dates true and false without a date_from, with
\* one that parses and with one that does not
Filters ==
    (DateFroms \X {None})
        \cup ({None, Some("2026-01-10"), Some("not-a-date")}
                 \X (NoDates \ {None}))

InitList ==
    /\ contracts \in ListStores \cup {ExampleStore}
    /\ now = 1
    /\ users = <<>>
    /\ calls = NoCalls

\* the pages and limits of the calls: those of the documented range, and
\* page 0 and the limits 0 and -1 outside it
PageLimits ==
    ((1..MaxPage) \X (1..MaxLimit))
        \cup {<<0, 1>>, <<0, 0>>, <<1, 0>>, <<1, -1>>}

\* a call of list_contracts up to its second query
ListContractsCount ==
    \E pl \in PageLimits, filter \in Filters :
        LET args == [page |-> pl[1], limit |-> pl[2],
                     date_from |-> filter[1], no_dates |-> filter[2]]
        IN  /\ calls["A"] = NoCall
            /\ calls' = [calls EXCEPT !["A"] =
                   ListCall("list_contracts", args, args, contracts, now)]
            /\ UNCHANGED <<contracts, now, users>>

\* a call of update_contract by connection p, up to its UPDATE
update_contract_begins(p, contract_id, a) ==
    /\ calls[p] = NoCall
    /\ calls' = [calls EXCEPT ![p] =
           looked_up(Call("update_contract", None, contract_id, a, now),
                     contracts)]
    /\ UNCHANGED <<contracts, now, users>>

\* the date the concurrent update gives the first contract
RaceDate == Some(10)

\* another session calls update_contract with a date for the first contract
ConcurrentUpdate ==
    /\ contracts # <<>>
    /\ update_contract_begins("B", contracts[1].id, RowArgs(RaceDate, None))

NextList ==
    \/ ListContractsCount
    \/ ListContractsPage
    \/ ConcurrentUpdate
    \/ UpdateContractExecute
    \/ UpdateContractCommit
    \/ UpdateContractReRead

SpecList == InitList /\ [][NextList]_vars

(***************************************************************************)
(* Properties of list_contracts, checked under SpecList.  A call that has  *)
(* returned holds its arguments in req, its result in body, and the rows   *)
(* its count query and its page query read in counted_in and paged_in.     *)
(***************************************************************************)
\* the call of connection p is a list_contracts call that has returned
ListReturned(p) == Done(calls[p]) /\ calls[p].op = "list_contracts"

\* a call of list_contracts with page >= 1 and limit >= 1 has returned
Listed(p) ==
    /\ ListReturned(p)
    /\ calls[p].req.page >= 1
    /\ calls[p].req.limit >= 1

\* the length of the page of a sequence of n records
PageLen(n, page, limit) ==
    IF n <= (page - 1) * limit THEN 0
    ELSE IF n - (page - 1) * limit < limit THEN n - (page - 1) * limit
    ELSE limit

\* items is the page of the sequence full
IsPageOf(items, full, page, limit) ==
    /\ Len(items) = PageLen(Len(full), page, limit)
    /\ \A k \in 1..Len(items) : items[k] = full[(page - 1) * limit + k]

\* the contracts of store that pass the filter selecting the items
Filtered(store, date_from, no_dates) ==
    {store[i] : i \in {j \in DOMAIN store :
                          query_where(store[j], date_from, no_dates)}}

\* C1: for every store, filter, page >= 1 and limit >= 1, list_contracts
\* returns at most limit items, and they are the records of the filtered,
\* ordered contract sequence (of the rows the page query read) from offset
\* (page-1)*limit up to (page-1)*limit + limit: none when the offset is past
\* the end.
C1_PageIsSlice ==
    \A p \in Calls : Listed(p) =>
        LET r == calls[p]
            filtered == Filtered(r.paged_in, r.req.date_from, r.req.no_dates)
        IN  /\ Len(r.body.items) <= r.req.limit
            /\ \E full \in order_by(filtered) :
                  IsPageOf(r.body.items, full, r.req.page, r.req.limit)
            /\ Cardinality(filtered) <= (r.req.page - 1) * r.req.limit
               => r.body.items = <<>>

\* a second page that is the short last page of three matching contracts
C1_Witness ==
    \E p \in Calls :
        /\ Listed(p)
        /\ calls[p].req.page = 2
        /\ calls[p].req.limit = 2
        /\ Cardinality(Filtered(calls[p].paged_in, calls[p].req.date_from,
                                calls[p].req.no_dates)) = 3
        /\ Len(calls[p].body.items) = 1
        /\ calls[p].body.items[1].date = Some(10)

\* A.start_at_time <= B.start_at_time, an absent time being +infinity
StartLeq(a, b) ==
    \/ b.start_at_time = None
    \/ /\ a.start_at_time # None
       /\ b.start_at_time # None
       /\ Val(a.start_at_time) <= Val(b.start_at_time)

\* A may be listed before B
ListedInOrder(a, b) ==
    \/ a.date = None /\ b.date # None
    \/ a.date # None /\ b.date # None /\ Val(a.date) < Val(b.date)
    \/ a.date = b.date /\ StartLeq(a, b)

\* the order the example gives for ExampleStore, as <<date, start_at_time>>
ExampleOrder ==
    <<<<None, None>>, <<Some(5), Some(9)>>, <<Some(5), None>>,
      <<Some(10), None>>>>

\* C2: of two returned records A before B, A has no date and B has one, or
\* both have dates and A's is earlier, or their dates are equal and
\* A.start_at_time <= B.start_at_time with an absent time as +infinity; the
\* store of the example lists as null-date, 01-05/09:00, 01-05/null,
\* 01-10/null.
C2_ItemsOrdered ==
    \A p \in Calls : Listed(p) =>
        LET r == calls[p]
        IN  /\ \A i, j \in 1..Len(r.body.items) :
                  i < j => ListedInOrder(r.body.items[i], r.body.items[j])
            /\ (/\ r.paged_in = ExampleStore
                /\ r.req.date_from = None
                /\ r.req.no_dates = None)
               => IsPageOf([k \in 1..Len(r.body.items) |->
                               <<r.body.items[k].date,
                                 r.body.items[k].start_at_time>>],
                           ExampleOrder, r.req.page, r.req.limit)

\* the second page of two of the example: 01-05/null, then 01-10/null
C2_Witness ==
    \E p \in Calls :
        /\ Listed(p)
        /\ calls[p].paged_in = ExampleStore
        /\ calls[p].req.date_from = None
        /\ calls[p].req.no_dates = None
        /\ calls[p].req.page = 2
        /\ calls[p].req.limit = 2
        /\ Len(calls[p].body.items) = 2
        /\ calls[p].body.items[1].date = Some(5)
        /\ calls[p].body.items[1].start_at_time = None

\* C3: for a fixed store (the rows the count query read) and fixed
\* date_from and no_dates, total_count is the same for every page and
\* limit, and is the number of contracts that pass the filter that selects
\* the items.  (Every call agreeing with the call for page 1 and limit 1 of
\* the same store and filter, any two calls agree.)
C3_TotalCount ==
    \A p \in Calls : Listed(p) =>
        LET r == calls[p]
        IN  /\ r.body.total_count =
                   Cardinality(Filtered(r.counted_in, r.req.date_from,
                                        r.req.no_dates))
            /\ \A o \in list_contracts(r.counted_in, 1, 1, r.req.date_from,
                                        r.req.no_dates) :
                  o.total_count = r.body.total_count

\* a page past the end of a filtered listing: the count is still that of
\* the one matching contract among four
C3_Witness ==
    \E p \in Calls :
        /\ Listed(p)
        /\ calls[p].req.date_from = Some("2026-01-10")
        /\ calls[p].req.page = 2
        /\ calls[p].body.total_count = 1
        /\ calls[p].body.items = <<>>
        /\ Len(calls[p].counted_in) = 4

\* the contracts of store without a date
Undated(store) ==
    {store[i] : i \in {j \in DOMAIN store : store[j].date = None}}

\* C4: with no_dates = true every returned record has no date and date_from
\* has no effect on items or total_count; with no_dates = false every
\* returned record has a date; with no_dates and date_from absent every
\* contract of the store matches.
C4_TriState ==
    \A p \in Calls : Listed(p) =>
        LET r == calls[p]
        IN  /\ r.req.no_dates = Some(TRUE) =>
                  /\ \A k \in 1..Len(r.body.items) :
                        r.body.items[k].date = None
                  /\ r.body.total_count = Cardinality(Undated(r.counted_in))
                  /\ \E full \in order_by(Undated(r.paged_in)) :
                        IsPageOf(r.body.items, full, r.req.page,
                                 r.req.limit)
            /\ r.req.no_dates = Some(FALSE) =>
                  \A k \in 1..Len(r.body.items) :
                      r.body.items[k].date # None
            /\ (r.req.no_dates = None /\ r.req.date_from = None) =>
                  /\ r.body.total_count = Len(r.counted_in)
                  /\ Len(r.body.items) =
                         PageLen(Len(r.paged_in), r.req.page, r.req.limit)

\* no_dates = true beside a date_from that no undated contract could pass
C4_Witness ==
    \E p \in Calls :
        /\ Listed(p)
        /\ calls[p].req.no_dates = Some(TRUE)
        /\ calls[p].req.date_from = Some("2026-01-10")
        /\ Len(calls[p].body.items) = 1
        /\ \E i \in DOMAIN calls[p].paged_in :
              calls[p].paged_in[i].date = Some(10)

\* the calendar day a date_from string names
DayNamed(s) ==
    CASE s = "2026-01-10" -> 10
      [] s = "2026-01-11" -> 11
      [] s = "2026-01-10T09:00:00" -> 10

\* the contracts of store dated on or after day d
DatedFrom(store, d) ==
    {store[i] : i \in {j \in DOMAIN store :
        store[j].date # None /\ Val(store[j].date) >= d}}

\* C5: when date_from is a date string, or a date-time string of which the
\* date is used, and no_dates is not true, the contracts matched are those
\* whose date is present and >= date_from, for items and for total_count.
C5_DateFrom ==
    \A p \in Calls :
        (/\ Listed(p)
         /\ calls[p].req.date_from \in
                {Some("2026-01-10"), Some("2026-01-11"),
                 Some("2026-01-10T09:00:00")}
         /\ calls[p].req.no_dates # Some(TRUE))
        => LET r == calls[p]
               d == DayNamed(Val(r.req.date_from))
           IN  /\ r.body.total_count =
                      Cardinality(DatedFrom(r.counted_in, d))
               /\ \E full \in order_by(DatedFrom(r.paged_in, d)) :
                     IsPageOf(r.body.items, full, r.req.page, r.req.limit)

\* a date-time date_from that keeps a contract dated that day and drops an
\* earlier one and an undated one
C5_Witness ==
    \E p \in Calls :
        /\ Listed(p)
        /\ calls[p].req.date_from = Some("2026-01-10T09:00:00")
        /\ calls[p].req.no_dates = None
        /\ Len(calls[p].body.items) = 1
        /\ calls[p].body.items[1].date = Some(10)
        /\ calls[p].paged_in = calls[p].counted_in
        /\ \E i \in DOMAIN calls[p].paged_in :
              calls[p].paged_in[i].date = Some(5)
        /\ \E i \in DOMAIN calls[p].paged_in :
              calls[p].paged_in[i].date = None

\* C6: list_contracts with a date_from that cannot be parsed does not
\* raise, and its items and total_count are those of the same call made
\* without date_from, for every store and every no_dates.
C6_BadDateFrom ==
    \A p \in Calls :
        (Listed(p) /\ calls[p].req.date_from = Some("not-a-date")) =>
            LET r == calls[p]
            IN  /\ r.status = 200
                /\ r.body \in
                       page_results(
                           total_count_of(r.counted_in, None, r.req.no_dates),
                           r.paged_in, r.req.page, r.req.limit, None,
                           r.req.no_dates)
                /\ r.counted_in = r.paged_in =>
                       r.body \in list_contracts(r.paged_in, r.req.page,
                                                 r.req.limit, None,
                                                 r.req.no_dates)
                /\ r.body.total_count =
                       Cardinality({i \in DOMAIN r.counted_in :
                           /\ r.req.no_dates = Some(TRUE)
                                  => r.counted_in[i].date = None
                           /\ r.req.no_dates = Some(FALSE)
                                  => r.counted_in[i].date # None})

\* an unparseable date_from with an undated and a dated contract listed
C6_Witness ==
    \E p \in Calls :
        /\ Listed(p)
        /\ calls[p].req.date_from = Some("not-a-date")
        /\ calls[p].req.no_dates = None
        /\ Len(calls[p].body.items) = 2
        /\ calls[p].body.items[1].date = None
        /\ calls[p].body.items[2].date # None

(***************************************************************************)
(* Properties of the submissions, checked under Spec.  A request is served *)
(* in steps: the step that begins it takes calls[p] from NoCall to the     *)
(* call, the step that commits its UPDATE takes the call from "updated" to *)
(* "committed", and the call is "done" once the handler has its answer.    *)
(***************************************************************************)
\* the step begins a request of operation op on connection p
Begins(p, op) ==
    /\ calls[p] = NoCall
    /\ calls'[p] # NoCall
    /\ calls'[p].op = op

\* the step begins a POST /contracts/
Submits(p) == Begins(p, "submit_contract")

\* the step begins a submission that names a contract (the update branch)
SubmitsUpdate(p) == Submits(p) /\ Truthy(calls'[p].req.contract_id)

\* the step commits the UPDATE of the call of connection p
Commits(p) == calls[p].pc = "updated" /\ calls'[p].pc = "committed"

\* the call of connection p is a POST /contracts/ in flight or answered
Submitted(p) == calls[p] # NoCall /\ calls[p].op = "submit_contract"

\* the rows with the id contract_id
RowsOf(contract_id) ==
    {i \in DOMAIN contracts : contracts[i].id = contract_id}

\* the calendar day a date string names
DayOfString(s) ==
    CASE s = "2026-01-05" -> 5
      [] s = "2026-01-10" -> 10
      [] s = "2026-01-10T09:00:00" -> 10

\* the hour a time string names
HourOfString(s) ==
    CASE s = "09:00:00" -> 9
      [] s = "14:00:00" -> 14

\* the column value that holds the request value v of field f
Stored(f, v) ==
    CASE f = "date" -> Some(DayOfString(v))
      [] f \in {"start_at_time", "end_at_time"} -> Some(HourOfString(v))
      [] f = "form_stage" -> v
      [] OTHER -> Some(v)

\* the date and time strings no parser accepts
Malformed == {"not-a-date", "not-a-time"}

TimeFields == {"date", "start_at_time", "end_at_time"}

\* request req carries one of the strings of S as a date or time
Carries(req, S) == \E f \in TimeFields : req[f] # None /\ Val(req[f]) \in S

\* C7: update_contract on an existing contract sets the fields passed with
\* a non-null value and leaves every other field of that contract, and
\* every other contract, as it was, id and created_at included, and the
\* row keeps its columns (no owner is stored in a row); updated_at is the
\* bookkeeping column the write refreshes.  Updating only form_stage leaves
\* zip, city and the rest unchanged.  The write is the commit of the call's
\* UPDATE, whatever another request committed since the call's lookup; no
\* other step of a submission changes a contract.
C7_UpdateFrame ==
    [][\A p \in Calls :
          /\ (Submitted(p) /\ Commits(p)) =>
                LET c == calls[p]
                IN  /\ RowsOf(c.contract_id) # {}
                    /\ ~Carries(c.req, Malformed \cup {""})
                    /\ DOMAIN contracts' = DOMAIN contracts
                    /\ \A i \in DOMAIN contracts :
                          IF i \in RowsOf(c.contract_id)
                          THEN /\ \A f \in FieldNames :
                                    contracts'[i][f] =
                                        IF c.req[f] = None
                                        THEN contracts[i][f]
                                        ELSE Stored(f, Val(c.req[f]))
                               /\ DOMAIN contracts'[i] = DOMAIN contracts[i]
                               /\ contracts'[i].id = contracts[i].id
                               /\ contracts'[i].created_at =
                                      contracts[i].created_at
                          ELSE contracts'[i] = contracts[i]
          /\ (/\ calls'[p] # calls[p]
              /\ ~Commits(p)
              /\ Submitted(p) \/ SubmitsUpdate(p))
             => contracts' = contracts]_vars

\* an update of form_stage alone, on the first of two contracts, which
\* keeps its zip and city (the handler answers 500 once the UPDATE is
\* committed: the row read back has no user_id)
C7_Witness ==
    \E p \in Calls :
        /\ Submitted(p)
        /\ Done(calls[p])
        /\ calls[p].status = 500
        /\ calls[p].req.contract_id = Some("c1")
        /\ calls[p].req.form_stage = Some("schedule")
        /\ \A f \in FieldNames \ {"form_stage"} : calls[p].req[f] = None
        /\ Len(contracts) = 2
        /\ contracts[1].zip = Some("10001")
        /\ contracts[1].city = Some("Albany")
        /\ contracts[1].form_stage = "schedule"
        /\ contracts[1].updated_at > contracts[1].created_at

\* the owner a row records, if it records one
Owner(c) == IF "user_id" \in DOMAIN c THEN Some(c.user_id) ELSE None

\* the call of connection p is a submission for a stored contract whose
\* owner differs from the user_id of the request, with dates and times
\* that parse
SubmittedByOther(p) ==
    /\ Submitted(p)
    /\ Truthy(calls[p].req.contract_id)
    /\ calls[p].read # None
    /\ Owner(Val(calls[p].read)) # Some(calls[p].req.user_id)
    /\ ~Carries(calls[p].req, Malformed \cup {""})

\* C8: a submission with contract_id that targets a contract whose owner
\* differs from the user_id of the request is rejected as an ownership
\* mismatch (HTTP 403) with no write committed: no step of the request
\* changes the stored contract.
C8_RejectedWritesNothing ==
    [][\A p \in Calls :
          (SubmittedByOther(p) /\ calls'[p] # calls[p])
          => /\ contracts' = contracts
             /\ Done(calls'[p]) => calls'[p].status = 403]_vars

\* C9: a create or update whose date, start_at_time or end_at_time string
\* is unparseable (the empty string included) fails as an error and commits
\* no write: a create inserts no record, an update applies none of its
\* fields, the valid ones of the same request included.  The request is
\* answered by the step that begins it, before any UPDATE.
C9_UnparseableWritesNothing ==
    [][\A p \in Calls :
          (Submits(p) /\ Carries(calls'[p].req, Malformed \cup {""}))
          => /\ Done(calls'[p])
             /\ calls'[p].status \in {404, 500}
             /\ calls'[p].status = 404
                    => /\ SubmitsUpdate(p)
                       /\ RowsOf(calls'[p].contract_id) = {}
             /\ contracts' = contracts
             /\ now' = now]_vars

\* an update of zip beside a date that does not parse: it failed and the
\* contract keeps its zip
C9_Witness ==
    \E p \in Calls :
        /\ Submitted(p)
        /\ Done(calls[p])
        /\ calls[p].status = 500
        /\ calls[p].raised = "ValueError"
        /\ calls[p].req.contract_id = Some("c1")
        /\ calls[p].req.zip = Some("10002")
        /\ calls[p].req.date = Some("not-a-date")
        /\ Len(contracts) >= 1
        /\ contracts[1].zip = Some("10001")

\* C10: update_contract, and submit_contract with a contract_id (a
\* non-empty one: the handler takes an empty contract_id as none given), for
\* an identifier that names no contract signals not-found (None, HTTP 404),
\* creates no contract and changes no stored contract; get_contract_by_id
\* gives the record with that id, or not-found (None, HTTP 404 from
\* get_contract).
C10_NotFound ==
    [][\A p \in Calls :
          /\ (SubmitsUpdate(p) /\ RowsOf(calls'[p].contract_id) = {})
             => /\ Done(calls'[p])
                /\ calls'[p].status = 404
                /\ calls'[p].ret = None
                /\ contracts' = contracts
                /\ LET r == update_contract_lookup(
                                contracts, calls'[p].contract_id,
                                ArgsOf(calls'[p].req))
                   IN  r.returned /\ r.raised = "" /\ r.ret = None
          /\ Begins(p, "get_contract")
             => /\ contracts' = contracts
                /\ Done(calls'[p])
                /\ LET cid == calls'[p].contract_id
                       found == get_contract_by_id(contracts, cid)
                   IN  /\ calls'[p].ret = found
                       /\ IF RowsOf(cid) # {}
                          THEN /\ calls'[p].status # 404
                               /\ \E i \in RowsOf(cid) :
                                     found = Some(contracts[i])
                          ELSE /\ found = None
                               /\ calls'[p].status = 404
                               /\ calls'[p].body = None]_vars

\* a submission of a change of stage for an id no contract has, beside a
\* stored contract: 404
C10_Witness ==
    \E p \in Calls :
        /\ Submitted(p)
        /\ Done(calls[p])
        /\ calls[p].status = 404
        /\ calls[p].req.contract_id = Some("c2")
        /\ calls[p].req.form_stage = Some("schedule")
        /\ calls[p].ret = None
        /\ Len(contracts) = 1

(***************************************************************************)
(* Properties of the stored contracts over every operation, checked under  *)
(* Spec.                                                                   *)
(***************************************************************************)
\* the call of connection p is an upload in flight or answered
Uploaded(p) == calls[p] # NoCall /\ calls[p].op \in UploadOps

\* the column an upload request writes
DocField(op) ==
    IF op = "upload_inspection_doc" THEN "inspection_doc" ELSE "invoice_doc"

\* C11: a field passed to update_contract as None is left untouched, not
\* cleared: over every step (of submissions, uploads and reads, side by
\* side) a column of a contract that holds a non-null value holds a
\* non-null value afterwards, and the commit of an update leaves every
\* column it was given no value for as it was.
C11_NeverCleared ==
    [][/\ \A i \in DOMAIN contracts :
             /\ i \in DOMAIN contracts'
             /\ \A f \in NullableFields :
                   contracts[i][f] # None => contracts'[i][f] # None
       /\ \A p \in Calls : Commits(p) =>
             \A i \in DOMAIN contracts : \A f \in FieldNames :
                 calls[p].a[f] = None => contracts'[i][f] = contracts[i][f]
       /\ \A p \in Calls : (Commits(p) /\ Uploaded(p)) =>
             \A i \in DOMAIN contracts :
                 \A f \in FieldNames \ {DocField(calls[p].op)} :
                     contracts'[i][f] = contracts[i][f]]_vars

\* an inspection document uploaded to a contract stored with every field:
\* the invoice document, the date and the zip it had are still there
C11_Witness ==
    \E p \in Calls :
        /\ Uploaded(p)
        /\ Done(calls[p])
        /\ calls[p].op = "upload_inspection_doc"
        /\ calls[p].req.put_ok
        /\ calls[p].contract_id = "c1"
        /\ Len(contracts) >= 1
        /\ contracts[1].inspection_doc =
               Some("https://bucket.s3/contracts/c1/inspection/file")
        /\ contracts[1].invoice_doc = Some("s3/invoice.pdf")
        /\ contracts[1].date = Some(10)
        /\ contracts[1].zip = Some("10001")

\* C12: in every reachable state, after any sequence of create and update
\* submissions with arbitrary form_stage inputs, the form_stage of every
\* contract is one of project_id, schedule, documents, closed.
C12_FormStageInStages ==
    \A i \in DOMAIN contracts : contracts[i].form_stage \in FormStages

\* the step begins a submission that names no contract (the create branch)
SubmitsCreate(p) == Submits(p) /\ ~Truthy(calls'[p].req.contract_id)

\* the column value create_contract stores for the request value o of field
\* f: an absent value, and an empty date or time, as null
StoredOnCreate(f, o) ==
    IF o = None THEN None
    ELSE IF f \in TimeFields /\ Val(o) = "" THEN None
    ELSE Stored(f, Val(o))

\* C13: create_contract called with form_stage unset (and no malformed date
\* or time) persists and returns a new contract whose form_stage is
\* project_id, whose identifier differs from the identifier of every
\* existing contract, and whose optional fields are stored as supplied;
\* the contracts already stored stay as they were.
C13_CreateDefaults ==
    [][\A p \in Calls :
          (/\ SubmitsCreate(p)
           /\ calls'[p].req.form_stage = None
           /\ ~Carries(calls'[p].req, Malformed))
          => /\ calls'[p].status = 200
             /\ Len(contracts') = Len(contracts) + 1
             /\ \A i \in DOMAIN contracts : contracts'[i] = contracts[i]
             /\ LET new == contracts'[Len(contracts')]
                IN  /\ new.form_stage = "project_id"
                    /\ \A i \in DOMAIN contracts : contracts[i].id # new.id
                    /\ \A f \in NullableFields :
                          new[f] = StoredOnCreate(f, calls'[p].req[f])
                    /\ calls'[p].body = Some(ContractResponse(new))]_vars

\* the ISO date a well-formed date string names: itself, or the date part of
\* a date-time string
DateComponent(s) ==
    CASE s = "2026-01-05" -> "2026-01-05"
      [] s = "2026-01-10T09:00:00" -> "2026-01-10"

\* C14: a contract created with date D given as an ISO date string and then
\* read back by its id (get_contract on the store the create leaves) has
\* date D; created with a full date-time string, it reads back with the
\* date part of that string.
C14_DateRoundTrip ==
    [][\A p \in Calls :
          (/\ SubmitsCreate(p)
           /\ calls'[p].req.date \in {Some("2026-01-05"),
                                      Some("2026-01-10T09:00:00")}
           /\ ~Carries(calls'[p].req, Malformed))
          => /\ calls'[p].status = 200
             /\ LET read == get_contract(contracts', Val(calls'[p].body).id)
                IN  /\ read.status = 200
                    /\ Val(read.body).date =
                           Some(DateComponent(Val(calls'[p].req.date)))]_vars

\* C15: every operation that changes a stored contract (an update of at
\* least one field, a document upload) refreshes the updated_at of that
\* contract, and no operation changes the created_at of a stored contract.
\* A contract changes only when an UPDATE is committed; the UPDATE sets
\* updated_at to func.now() of its transaction, the time the request made
\* its first statement: a time after created_at and not after the commit,
\* and later than the updated_at the contract had whenever nothing was
\* committed since the request began.
C15_Timestamps ==
    [][/\ \A i \in DOMAIN contracts :
             /\ i \in DOMAIN contracts'
             /\ contracts'[i].created_at = contracts[i].created_at
             /\ contracts'[i] # contracts[i] =>
                    \E p \in Calls :
                        /\ Commits(p)
                        /\ contracts[i].id = calls[p].contract_id
       /\ \A p \in Calls : Commits(p) =>
             /\ \/ Submitted(p) /\ \E f \in FieldNames : calls[p].req[f] # None
                \/ Uploaded(p)
             /\ RowsOf(calls[p].contract_id) # {}
             /\ \A i \in RowsOf(calls[p].contract_id) :
                   /\ contracts'[i].updated_at = calls[p].began
                   /\ contracts'[i].updated_at > contracts'[i].created_at
                   /\ contracts'[i].updated_at <= now
                   /\ calls[p].began = now =>
                          contracts'[i].updated_at > contracts[i].updated_at
       ]_vars

\* an invoice document uploaded to a contract that was stored at 0 and
\* written at 1: the upload began at 2, updated_at is 2, created_at still 0
C15_Witness ==
    \E p \in Calls :
        /\ Uploaded(p)
        /\ Done(calls[p])
        /\ calls[p].op = "upload_invoice_doc"
        /\ calls[p].req.put_ok
        /\ calls[p].contract_id = "c1"
        /\ calls[p].began = 2
        /\ Len(contracts) = 1
        /\ contracts[1].created_at = 0
        /\ contracts[1].updated_at = 2
        /\ contracts[1].invoice_doc # None

\* the identifiers of the contracts of a store
Ids(store) == {store[i].id : i \in DOMAIN store}

\* C18: over every step the set of contract identifiers only grows: a
\* submission without a contract_id adds exactly one new contract (unless a
\* date or time of it is malformed, when it adds none), a submission with a
\* contract_id never adds one, and no operation (list, get, update, upload)
\* removes or adds a contract.
C18_IdsOnlyGrow ==
    [][/\ Ids(contracts) \subseteq Ids(contracts')
       /\ \A p \in Calls :
             (SubmitsCreate(p) /\ ~Carries(calls'[p].req, Malformed))
             => /\ Len(contracts') = Len(contracts) + 1
                /\ Cardinality(Ids(contracts')) =
                       Cardinality(Ids(contracts)) + 1
       /\ (\A p \in Calls : ~SubmitsCreate(p))
          => /\ Len(contracts') = Len(contracts)
             /\ Ids(contracts') = Ids(contracts)]_vars

\* C19: the HTTP list endpoint passes the page, limit, date_from and
\* no_dates of its query string to the contract query and answers
\* {items, total_count}: the contracts of the requested page in the order
\* of the query, and the filtered count.
C19_ListEndpoint ==
    \A p \in Calls :
        (calls[p] # NoCall /\ calls[p].op = "list_endpoint"
            /\ Done(calls[p]))
        => LET c == calls[p]
           IN  /\ c.status = 200
               /\ \E r \in page_results(
                               total_count_of(c.counted_in, c.req.date_from,
                                              c.req.no_dates),
                               c.paged_in, c.req.page, c.req.limit,
                               c.req.date_from, c.req.no_dates) :
                     /\ r.raised = ""
                     /\ c.body =
                            Some([items |-> [k \in DOMAIN r.items |->
                                               ContractResponse(r.items[k])],
                                  total_count |-> r.total_count])

(***************************************************************************)
(* Dates beside times, and the workflow stage, checked under Spec.         *)
(***************************************************************************)
\* contract c has a start or end time and no date
TimeWithoutDate(c) ==
    /\ c.date = None
    /\ c.start_at_time # None \/ c.end_at_time # None

\* C21: a contract that has a start_at_time or end_at_time but no date had
\* a date before, which was then cleared: no step puts a contract in that
\* state unless the contract was stored with a date just before (or was in
\* that state already), so no create or update submission produces a
\* contract with a time and no date directly.
C21_TimeOnlyAfterDate ==
    [][\A i \in DOMAIN contracts' :
          TimeWithoutDate(contracts'[i]) =>
              /\ i \in DOMAIN contracts
              /\ \/ contracts[i].date # None
                 \/ TimeWithoutDate(contracts[i])]_vars

\* the place of a stage in the lifecycle project_id -> schedule ->
\* documents -> closed
StageRank(stage) ==
    CASE stage = "project_id" -> 1
      [] stage = "schedule" -> 2
      [] stage = "documents" -> 3
      [] stage = "closed" -> 4

\* C22: over any sequence of submissions the form_stage of a contract
\* never moves to an earlier stage of the lifecycle project_id -> schedule
\* -> documents -> closed, and a closed contract stays closed.
C22_StageLifecycle ==
    [][\A i \in DOMAIN contracts :
          /\ i \in DOMAIN contracts'
          /\ contracts[i].form_stage = "closed"
                 => contracts'[i].form_stage = "closed"
          /\ (/\ contracts[i].form_stage \in FormStages
              /\ contracts'[i].form_stage \in FormStages)
             => StageRank(contracts'[i].form_stage) >=
                    StageRank(contracts[i].form_stage)]_vars

(***************************************************************************)
(* The frame of the uploads and of the update without fields, checked      *)
(* under Spec.                                                             *)
(***************************************************************************)
\* the URL blob storage returns for a document of the kind the operation
\* op uploads to contract contract_id
UrlOf(op, contract_id) ==
    "https://bucket.s3/contracts/" \o contract_id \o
        (IF op = "upload_inspection_doc" THEN "/inspection" ELSE "/invoice")
        \o "/file"

\* the upload c is rejected: no contract has the id, the file has no name,
\* is empty or of a type that is not allowed, or blob storage fails
UploadRejected(c) ==
    \/ RowsOf(c.contract_id) = {}
    \/ c.req.file.filename = ""
    \/ c.req.file.empty
    \/ c.req.file.content_type = "application/x-msdownload"
    \/ ~c.req.put_ok

\* C24: upload_inspection_doc (upload_invoice_doc) changes at most the
\* inspection_doc (invoice_doc) field of the addressed contract (and its
\* updated_at), setting it to the URL returned by blob storage, and only
\* when the upload to blob storage succeeded; a request that is rejected
\* (unknown contract 404, missing file name or empty file 400, disallowed
\* MIME type 400, blob-storage failure 500) changes no contract.  The
\* change is the commit of the upload's UPDATE; no other step of an upload
\* changes a contract, and a rejected upload is answered before it.
C24_UploadFrame ==
    [][\A p \in Calls :
          (/\ calls'[p] # calls[p]
           /\ calls'[p] # NoCall
           /\ calls'[p].op \in UploadOps)
          => LET c == calls'[p]
             IN  /\ RowsOf(c.contract_id) = {}
                    => Done(c) /\ c.status = 404
                 /\ (/\ Done(c)
                     /\ RowsOf(c.contract_id) # {}
                     /\ \/ c.req.file.filename = ""
                        \/ c.req.file.empty
                        \/ c.req.file.content_type =
                               "application/x-msdownload")
                    => c.status = 400
                 /\ (Done(c) /\ RowsOf(c.contract_id) # {} /\ ~c.req.put_ok)
                    => c.status \in {400, 500}
                 /\ Done(c) => c.status \in {200, 400, 404, 500}
                 /\ UploadRejected(c)
                    => /\ contracts' = contracts
                       /\ c.pc \in {"found", "done"}
                 /\ ~Commits(p) => contracts' = contracts
                 /\ Commits(p) =>
                       /\ DOMAIN contracts' = DOMAIN contracts
                       /\ \A i \in DOMAIN contracts :
                             IF i \in RowsOf(c.contract_id)
                             THEN /\ contracts'[i][DocField(c.op)] =
                                         Some(UrlOf(c.op, contracts[i].id))
                                  /\ \A f \in FieldNames \ {DocField(c.op)} :
                                         contracts'[i][f] = contracts[i][f]
                                  /\ contracts'[i].id = contracts[i].id
                                  /\ contracts'[i].created_at =
                                         contracts[i].created_at
                             ELSE contracts'[i] = contracts[i]]_vars

\* an invoice uploaded to the second of two contracts: it holds the URL,
\* has no inspection document still, and the first contract keeps the
\* invoice document it had
C24_Witness ==
    \E p \in Calls :
        /\ Uploaded(p)
        /\ Done(calls[p])
        /\ calls[p].op = "upload_invoice_doc"
        /\ ~UploadRejected(calls[p])
        /\ calls[p].contract_id = "c2"
        /\ Len(contracts) = 2
        /\ contracts[2].invoice_doc =
               Some("https://bucket.s3/contracts/c2/invoice/file")
        /\ contracts[2].inspection_doc = None
        /\ contracts[1].invoice_doc = Some("s3/invoice.pdf")

\* C26: update_contract on an existing contract with no field supplied
\* (all None) returns the current record and performs no write: the call
\* returns at its lookup and never executes an UPDATE, no field changes,
\* updated_at is not refreshed and the clock of the store does not move.
C26_EmptyUpdate ==
    [][\A p \in Calls :
          /\ (/\ SubmitsUpdate(p)
              /\ RowsOf(calls'[p].contract_id) # {}
              /\ \A f \in FieldNames : calls'[p].req[f] = None)
             => /\ contracts' = contracts
                /\ now' = now
                /\ Done(calls'[p])
                /\ calls'[p].raised = ""
                /\ \E i \in RowsOf(calls'[p].contract_id) :
                      calls'[p].ret = Some(contracts[i])
                /\ LET r == update_contract_lookup(
                                contracts, calls'[p].contract_id, NoArgs)
                   IN  /\ r.returned
                       /\ r.raised = ""
                       /\ \E i \in RowsOf(calls'[p].contract_id) :
                             r.ret = Some(contracts[i])
          /\ Commits(p) => \E f \in FieldNames : calls[p].a[f] # None]_vars

\* a submission without fields for a contract that was written once after
\* it was stored: updated_at is still 1 and the clock still 2
C26_Witness ==
    \E p \in Calls :
        /\ Submitted(p)
        /\ Done(calls[p])
        /\ calls[p].req.contract_id = Some("c1")
        /\ \A f \in FieldNames : calls[p].req[f] = None
        /\ calls[p].ret # None
        /\ Len(contracts) = 1
        /\ contracts[1].created_at = 0
        /\ contracts[1].updated_at = 1
        /\ now = 2

(***************************************************************************)
(* Determinism and argument checking of list_contracts, and its two reads, *)
(* checked under SpecList.                                                 *)
(***************************************************************************)
\* ceil(total_count / limit)
PageCount(total_count, limit) == (total_count + limit - 1) \div limit

\* the contracts a result lists
ItemsOf(r) == {r.items[k] : k \in DOMAIN r.items}

\* C16: list_contracts is deterministic: for a fixed store and fixed
\* arguments every call returns the same items in the same order, the
\* order of the contracts that tie on (date, start_at_time) included, so
\* that no two of the pages 1..ceil(total_count/limit) list the same
\* contract.
C16_Deterministic ==
    \A p \in Calls : Listed(p) =>
        LET c == calls[p]
            results(page) ==
                page_results(c.body.total_count, c.paged_in, page,
                             c.req.limit, c.req.date_from, c.req.no_dates)
            pages == 1..PageCount(c.body.total_count, c.req.limit)
        IN  /\ \A r \in results(c.req.page) : r = c.body
            /\ \A m, n \in pages : m # n =>
                   \A rm \in results(m), rn \in results(n) :
                       ItemsOf(rm) \cap ItemsOf(rn) = {}

\* C17: list_contracts called with page < 1 or with a limit < 1 behaves as
\* page 1 (of a valid limit) or is rejected with an error; it gives no
\* successful result for the invalid page or limit.
C17_InvalidPageRejected ==
    \A p \in Calls :
        (/\ ListReturned(p)
         /\ calls[p].req.page < 1 \/ calls[p].req.limit < 1)
        => \/ calls[p].body.raised # ""
           \/ /\ calls[p].req.limit >= 1
              /\ calls[p].body \in
                     page_results(calls[p].body.total_count,
                                  calls[p].paged_in, 1, calls[p].req.limit,
                                  calls[p].req.date_from,
                                  calls[p].req.no_dates)

\* C20: the count query and the page query of list_contracts are two
\* independent reads: total_count is the number of matching contracts of
\* the store as it was at the count query, items are a page of the store as
\* it is at the page query (so that a write committed between them gives a
\* result drawn from two store states), and when no write is committed
\* between the two both are of the same store state.
C20_TwoReads ==
    \A p \in Calls : Listed(p) =>
        LET c == calls[p]
        IN  /\ c.body.total_count =
                   Cardinality(Filtered(c.counted_in, c.req.date_from,
                                        c.req.no_dates))
            /\ \E full \in order_by(Filtered(c.paged_in, c.req.date_from,
                                              c.req.no_dates)) :
                  IsPageOf(c.body.items, full, c.req.page, c.req.limit)
            /\ c.counted_at = c.paged_at =>
                  /\ c.counted_in = c.paged_in
                  /\ c.body \in list_contracts(c.paged_in, c.req.page,
                                               c.req.limit, c.req.date_from,
                                               c.req.no_dates)

\* an update committed between the two queries: items list a contract that
\* total_count, still 0, did not count
C20_Witness ==
    \E p \in Calls :
        /\ Listed(p)
        /\ calls[p].counted_at < calls[p].paged_at
        /\ calls[p].body.total_count = 0
        /\ Len(calls[p].body.items) = 1
        /\ calls[p].body \notin
               list_contracts(calls[p].paged_in, calls[p].req.page,
                              calls[p].req.limit, calls[p].req.date_from,
                              calls[p].req.no_dates)
        /\ calls[p].body \notin
               list_contracts(calls[p].counted_in, calls[p].req.page,
                              calls[p].req.limit, calls[p].req.date_from,
                              calls[p].req.no_dates)

(***************************************************************************)
(* SpecUpdate: two update_contract calls side by side, each as its four    *)
(* awaits: the lookup, the UPDATE, the commit, and the read of the result. *)
(* The UPDATE is one statement on the committed row (PostgreSQL locks the  *)
(* row until the commit, so two UPDATEs of a row take effect one after the *)
(* other).                                                                 *)
(***************************************************************************)
\* the stores the calls start from: one contract without fields, one
\* contract with every field, or both; the rows were inserted at time 0
UpdateStores ==
    {<<Row(Uuids[1], NoArgs, 0)>>,
     <<Row(Uuids[1], AllFields, 0)>>,
     <<Row(Uuids[1], AllFields, 0), Row(Uuids[2], NoArgs, 0)>>}

\* the keyword arguments of the calls
UpdateArgs ==
    {NoArgs,
     With(NoArgs, "zip", "10002"),
     With(NoArgs, "city", "Troy"),
     With(With(NoArgs, "zip", "10002"), "google_meet_url", "meet.example/y"),
     With(NoArgs, "form_stage", "schedule"),
     With(NoArgs, "date", "2026-01-05"),
     With(NoArgs, "date", "not-a-date")}

\* the contract ids of the calls: the first and the second contract
UpdateIds == {Uuids[1], Uuids[2]}

InitUpdate ==
    /\ contracts \in UpdateStores
    /\ now = 1
    /\ users = <<>>
    /\ calls = NoCalls

\* contract = await get_contract_by_id(db, contract_id); return None when
\* there is none; build update_data (a ValueError leaves the call); return
\* contract when update_data is empty
UpdateContractRead ==
    \E p \in Calls, contract_id \in UpdateIds, a \in UpdateArgs :
        update_contract_begins(p, contract_id, a)

NextUpdate ==
    \/ UpdateContractRead
    \/ UpdateContractExecute
    \/ UpdateContractCommit
    \/ UpdateContractReRead

SpecUpdate == InitUpdate /\ [][NextUpdate]_vars

\* the fields the arguments a supply
Supplied(a) == {f \in FieldNames : a[f] # None}

\* the value the column f holds once the arguments a are applied
ValueOf(a, f) ==
    IF f = "form_stage" THEN Val(a[f]) ELSE update_data(a)[f]

\* both calls have returned, they named the same existing contract, neither
\* raised, and their fields are disjoint
DisjointUpdatesDone ==
    /\ \A p \in Calls : calls[p] # NoCall /\ Done(calls[p])
    /\ calls["A"].contract_id = calls["B"].contract_id
    /\ \A p \in Calls : calls[p].read # None /\ calls[p].raised = ""
    /\ Supplied(calls["A"].a) \cap Supplied(calls["B"].a) = {}

\* C23: when two update_contract calls on the same contract with disjoint
\* sets of supplied fields have both returned, under any interleaving of
\* their lookup, write and re-read, the contract holds the fields of both
\* calls and every other field as it was; the record each call returned
\* shows its own fields, and for each field of the other call either the
\* value the call read or the value the other call wrote.
C23_DisjointUpdates ==
    DisjointUpdatesDone =>
        \E i \in DOMAIN contracts :
            /\ contracts[i].id = calls["A"].contract_id
            /\ \A p \in Calls :
                 LET c == calls[p]
                     o == calls[CHOOSE q \in Calls : q # p]
                 IN  /\ \A f \in Supplied(c.a) :
                           /\ contracts[i][f] = ValueOf(c.a, f)
                           /\ Val(c.ret)[f] = ValueOf(c.a, f)
                     /\ \A f \in Supplied(o.a) :
                           Val(c.ret)[f] \in {Val(c.read)[f], ValueOf(o.a, f)}
                     /\ \A f \in FieldNames \
                              (Supplied(c.a) \cup Supplied(o.a)) :
                           /\ contracts[i][f] = Val(c.read)[f]
                           /\ Val(c.ret)[f] = Val(c.read)[f]

\* call A set the zip and call B the city of the first contract; both are
\* stored, and the record A returned does not show the city
C23_Witness ==
    /\ DisjointUpdatesDone
    /\ calls["A"].a = With(NoArgs, "zip", "10002")
    /\ calls["B"].a = With(NoArgs, "city", "Troy")
    /\ Len(contracts) = 1
    /\ contracts[1].zip = Some("10002")
    /\ contracts[1].city = Some("Troy")
    /\ Val(calls["A"].ret).zip = Some("10002")
    /\ Val(calls["A"].ret).city = None
    /\ Val(calls["B"].ret).zip = Some("10002")

(***************************************************************************)
(* SpecUsers: two get_or_create_user calls side by side, each as its four  *)
(* awaits: the lookup by email, the INSERT, the commit, and the read of    *)
(* the new row.  users is the users table as committed, in insertion       *)
(* order; the row of an INSERT that is not committed yet is with its call. *)
(* email and full_name are unique columns: an INSERT that repeats one of   *)
(* a committed row fails with an IntegrityError, and one that repeats one  *)
(* of a row not committed yet waits for that commit (PostgreSQL).          *)
(***************************************************************************)
\* the values the id default of User yields, by INSERT
UserUuids == <<"k1", "k2", "k3">>

\* default=lambda: str(uuid4()): a value no row has, committed or not;
\* allocated is the number of rows inserted so far
user_uuid4_of(allocated) == UserUuids[allocated + 1]

\* the users table with one user registered before the calls
Registered == <<[id |-> UserUuids[1], email |-> "ann@x.io",
                 full_name |-> "ann"]>>

\* the email and cognito:username of the identity tokens of the calls
Identities ==
    {[email |-> "ann@x.io", username |-> "ann"],
     [email |-> "bob@x.io", username |-> "bob"],
     [email |-> "bob@y.io", username |-> "bob"]}

\* select(User).where(User.email == email), scalar_one_or_none
get_user_by_email(table, email) ==
    LET hits == {i \in DOMAIN table : table[i].email = email}
    IN  IF hits = {} THEN None ELSE Some(table[CHOOSE i \in hits : TRUE])

\* the row repeats the email or the full_name of a row of table
repeats_unique(table, email, username) ==
    \E i \in DOMAIN table :
        table[i].email = email \/ table[i].full_name = username

\* the unique constraints on email and on full_name reject the INSERT
insert_raises(table, email, username) ==
    repeats_unique(table, email, username)

\* the rows inserted by the calls and not committed yet
Uncommitted(among) ==
    {Val(calls[q].row) : q \in {q \in among : calls[q].pc = "inserted"}}

\* insert(User).values(email=email, full_name=username): the row of the
\* INSERT, with the id its default gives it
insert_user(allocated, email, username) ==
    [id |-> user_uuid4_of(allocated), email |-> email,
     full_name |-> username]

InitUsers ==
    /\ contracts = <<>>
    /\ now = 1
    /\ users \in {<<>>, Registered}
    /\ calls = NoCalls

\* get_or_create_user: user = await get_user_by_email(db, email);
\* if user: return user
GetOrCreateUserLookup ==
    \E p \in Calls, identity \in Identities :
        LET user == get_user_by_email(users, identity.email)
        IN  /\ calls[p] = NoCall
            /\ calls' = [calls EXCEPT ![p] =
                   [pc |-> IF user # None THEN "done" ELSE "missing",
                    email |-> identity.email,
                    username |-> identity.username,
                    row |-> None,
                    raised |-> "",
                    ret |-> user]]
            /\ UNCHANGED <<contracts, now, users>>

\* create_user: await db.execute(insert(User).values(...)).  The statement
\* waits while a row not committed yet holds its email or full_name; no
\* other session sees its row before the commit.  An IntegrityError leaves
\* get_or_create_user and get_aws_user, which catches CognitoJWTException
\* only.
CreateUserInsert ==
    \E p \in Calls :
        LET c == calls[p]
            pending == Uncommitted(Calls \ {p})
        IN  /\ c.pc = "missing"
            /\ \A row \in pending :
                  ~repeats_unique(<<row>>, c.email, c.username)
            /\ calls' = [calls EXCEPT ![p] =
                   IF insert_raises(users, c.email, c.username)
                   THEN [c EXCEPT !.pc = "done",
                                  !.raised = "IntegrityError"]
                   ELSE [c EXCEPT
                            !.pc = "inserted",
                            !.row = Some(insert_user(
                                        Len(users) + Cardinality(pending),
                                        c.email, c.username))]]
            /\ UNCHANGED <<contracts, now, users>>

\* create_user: await db.commit()
CreateUserCommit ==
    \E p \in Calls :
        /\ calls[p].pc = "inserted"
        /\ users' = Append(users, Val(calls[p].row))
        /\ calls' = [calls EXCEPT ![p].pc = "committed"]
        /\ UNCHANGED <<contracts, now>>

\* create_user: return await get_user_by_email(db, email)
CreateUserReRead ==
    \E p \in Calls :
        /\ calls[p].pc = "committed"
        /\ calls' = [calls EXCEPT
               ![p].pc = "done",
               ![p].ret = get_user_by_email(users, calls[p].email)]
        /\ UNCHANGED <<contracts, now, users>>

NextUsers ==
    \/ GetOrCreateUserLookup
    \/ CreateUserInsert
    \/ CreateUserCommit
    \/ CreateUserReRead

SpecUsers == InitUsers /\ [][NextUsers]_vars

\* C25: when two get_or_create_user calls for the same email, unknown
\* before the calls, have both ended, under any interleaving of their
\* lookup and insert, both have returned the same user and exactly one row
\* with that email exists.
C25_SameUser ==
    (/\ \A p \in Calls : calls[p] # NoCall /\ Done(calls[p])
     /\ calls["A"].email = calls["B"].email
     /\ calls["A"].username = calls["B"].username
     /\ \A i \in DOMAIN Registered : Registered[i].email # calls["A"].email)
    => /\ \A p \in Calls : calls[p].raised = "" /\ calls[p].ret # None
       /\ calls["A"].ret = calls["B"].ret
       /\ Cardinality({i \in DOMAIN users :
                          users[i].email = calls["A"].email}) = 1

====
